---------------------------- MODULE Spec2Model ----------------------------
(***************************************************************************)
(* A model of the zima-file-service scripts:                               *)
(*   - create_presentation.py: the line-delimited JSON exchange with a     *)
(*     spawned tool process; call_create_word.py: one run of the tool      *)
(*     with the arguments on its command line;                             *)
(*     create_presentation_simple.py: the statements after the C# text     *)
(*     (specification Spec, one script per behaviour);                     *)
(*   - create_products.py, create_product_excel.py, call_excel.py: the     *)
(*     worksheet write loops and the read-back (SpecTable);                *)
(*   - create_cities_doc.py, create_cities_word.py: the document build     *)
(*     (SpecCities);                                                       *)
(*   - the scripts that save a file, together (SpecSaves);                 *)
(*   - two concurrent runs of create_products.py on one path (SpecRuns).   *)
(***************************************************************************)
EXTENDS Integers, Sequences, FiniteSets, TLC

VARIABLES
    \* ---- create_presentation.py ----
    pc,            \* the client's position in the script
    tool,          \* the spawned process: absent, running, hung, blocked, exited
    stdoutBuf,     \* lines the process wrote to its stdout, not yet read
    nwritten,      \* number of lines the process wrote to its stdout
    stderrFill,    \* units held in the stderr pipe, which the client never reads
    sent,          \* the lines the client wrote to the process's stdin, in order
    nread,         \* number of readline() calls that returned
    init_response, \* what the first readline() returned
    response,      \* what the second readline() returned
    outcome,       \* what the script reported: none, SUCCESS, ERROR, Error,
                   \* printed, announced, Traceback
    stdinOpen,     \* the client's end of the process's stdin is open
    waited,        \* process.wait() returned
    \* ---- call_create_word.py ----
    argv,          \* the content blocks passed to the tool on its command line
    returncode,    \* result.returncode, NoCode before subprocess.run returns
    \* ---- create_presentation_simple.py ----
    csfile,        \* /tmp/presentation_creator.cs holds the C# source
    docx,          \* generated_files/Climate_Change_Presentation.docx exists
    \* ---- create_products.py, create_product_excel.py, call_excel.py ----
    script,        \* which script runs
    input,         \* "literal": the script's own data; "any": any table
    headers,       \* the headers list
    rows,          \* the list of data rows
    ws,            \* the worksheet: (row, column) -> cell value
    tpc,           \* the script's position
    hk,            \* position in the header loop
    rk,            \* position in the data-row loop
    ck,            \* position in the loop over one row's values
    widths,        \* column_dimensions: column -> width
    file,          \* the workbook file at output_path
    readback,      \* the rows the verification step printed
    printed,       \* the messages printed, in order
    \* ---- create_cities_doc.py, create_cities_word.py ----
    cscript,       \* which script runs
    cities,        \* the list of cities
    doc,           \* the document body: the blocks added, in order
    cpc,           \* the script's position
    ci,            \* position in the loop over the cities
    dprinted,      \* the messages printed, in order
    \* ---- concurrent runs of create_products.py ----
    rpc,           \* each run's position
    disk,          \* the file at output_path, shared by the runs
    seen,          \* what each run's verification found at output_path
    rprinted       \* each run's messages, in order

exVars == <<pc, tool, stdoutBuf, nwritten, stderrFill, sent, nread,
            init_response, response, outcome, stdinOpen, waited>>

tabVars == <<script, input, headers, rows, ws, tpc, hk, rk, ck, widths, file,
             readback, printed>>

docVars == <<cscript, cities, doc, cpc, ci, dprinted>>

runVars == <<rpc, disk, seen, rprinted>>

cliVars == <<argv, returncode, csfile, docx>>

vars == <<exVars, cliVars, tabVars, docVars, runVars>>

notExchange == <<cliVars, tabVars, docVars, runVars>>
notTable == <<exVars, cliVars, docVars, runVars>>
notCities == <<exVars, cliVars, tabVars, runVars>>
notRuns == <<exVars, cliVars, tabVars, docVars>>

-----------------------------------------------------------------------------
(* Bounds *)

\* Lines the tool process may write to its stdout in one run.
MaxLines == 2
\* Capacity of the stderr pipe, in write units.
PipeCap == 1
\* Largest number of headers, and of values in a row, of an arbitrary table.
MaxCols == 2
\* Largest number of data rows of an arbitrary table.
MaxRows == 2
\* Largest number of cities in a list.
MaxCities == 3
\* Number of concurrent runs of create_products.py.
NRuns == 3

-----------------------------------------------------------------------------
(* create_presentation.py: requests *)

NoId == -1
\* The level of a block that carries none.
NoLevel == -1

\* One content block of the create_word request: its tag, for a heading its
\* level (NoLevel where the block has no level key), and the keys of the dict.
Block(type, level, keys) == [type |-> type, level |-> level, keys |-> keys]

H1 == Block("heading", 1, {"type", "level", "text"})
H2 == Block("heading", 2, {"type", "level", "text"})
Par == Block("paragraph", NoLevel, {"type", "text"})
ParBold == Block("paragraph", NoLevel, {"type", "text", "bold"})
ParItalic == Block("paragraph", NoLevel, {"type", "text", "italic"})
Brk == Block("break", NoLevel, {"type"})
Bul == Block("bullet", NoLevel, {"type", "items"})

content_blocks ==
    << H1, Par, Brk,
       H1, H2, Par, H2, Bul, Brk,
       H1, H2, Bul, H2, Bul, H2, Bul, Brk,
       H1, H2, Bul, H2, Bul, H2, Bul, H2, ParBold, Bul, ParItalic >>

\* call_create_word.py: tool_call["params"]["arguments"]["content"]
Heading1 == Block("heading1", NoLevel, {"type", "text"})

tool_call_content == << Heading1, Par >>

NoCode == -1

mcp_request ==
    [id |-> 1, method |-> "tools/call", content |-> content_blocks]

init_request ==
    [id |-> 0, method |-> "initialize", content |-> << >>]

notification ==
    [id |-> NoId, method |-> "notifications/initialized", content |-> << >>]

-----------------------------------------------------------------------------
(* Lines on the process's stdout.  A line is described by what json.loads    *)
(* and the lookups of the client see in it:                                  *)
(*   form    eof (readline returned ''), garbage (not JSON), scalar (JSON,   *)
(*           a number), object                                               *)
(*   id      the object's id, NoId when it has none                          *)
(*   result  the object has a 'result' key                                   *)
(*   text    result.content[0].text exists                                   *)
(*   isError result.isError is true (the tool reports a failure)             *)
(*   error   the object has an 'error' key                                   *)

Line(form, id, result, text, isError, error) ==
    [form |-> form, id |-> id, result |-> result, text |-> text,
     isError |-> isError, error |-> error]

EofLine     == Line("eof", NoId, FALSE, FALSE, FALSE, FALSE)
NoLine      == Line("none", NoId, FALSE, FALSE, FALSE, FALSE)
GarbageLine == Line("garbage", NoId, FALSE, FALSE, FALSE, FALSE)
ScalarLine  == Line("scalar", NoId, FALSE, FALSE, FALSE, FALSE)
InitOk      == Line("object", 0, TRUE, FALSE, FALSE, FALSE)
CallOk      == Line("object", 1, TRUE, TRUE, FALSE, FALSE)
CallToolErr == Line("object", 1, TRUE, TRUE, TRUE, FALSE)
RpcError    == Line("object", 1, FALSE, FALSE, FALSE, TRUE)
ServerNotif == Line("object", NoId, FALSE, FALSE, FALSE, FALSE)
StrayOk     == Line("object", 7, TRUE, TRUE, FALSE, FALSE)

\* What the tool process may write as one stdout line.
ToolLines == {GarbageLine, ScalarLine, InitOk, CallOk, CallToolErr, RpcError,
              ServerNotif, StrayOk}

\* json.loads(line): a decoded value, or a raise (JSONDecodeError).
JsonLoads(line) ==
    IF line.form \in {"eof", "garbage", "none"}
    THEN [raised |-> TRUE, value |-> NoLine]
    ELSE [raised |-> FALSE, value |-> line]

\* 'result' in result: a TypeError on a number, key membership on an object.
HasResultKey(value) ==
    IF value.form = "scalar"
    THEN [raised |-> TRUE, holds |-> FALSE]
    ELSE [raised |-> FALSE, holds |-> value.result]

\* result['result']['content'][0]['text']: raises (KeyError, IndexError,
\* TypeError) unless the text is there.
ContentLookup(value) == [raised |-> ~value.text]

-----------------------------------------------------------------------------
(* create_presentation.py: the client *)

Raise ==
    /\ outcome' = "Error"
    /\ pc' = "end"

\* Where the client goes after it has written the initialize request.
AfterSendInit_Pipelined == "sendNotif"
AfterSendInit == "readInit"

\* process.stdin.write(line); process.stdin.flush(): BrokenPipeError when the
\* process has exited.
Write(req, next) ==
    IF tool = "exited"
    THEN Raise /\ UNCHANGED sent
    ELSE /\ sent' = Append(sent, req)
         /\ pc' = next
         /\ UNCHANGED outcome

Popen ==
    /\ pc = "popen"
    /\ \/ /\ tool' = "running"
          /\ pc' = "sendInit"
          /\ UNCHANGED outcome
       \/ Raise /\ UNCHANGED tool
    /\ UNCHANGED <<stdoutBuf, nwritten, stderrFill, sent, nread, init_response,
                   response, stdinOpen, waited, notExchange>>

SendInit ==
    /\ pc = "sendInit"
    /\ Write(init_request, AfterSendInit)
    /\ UNCHANGED <<tool, stdoutBuf, nwritten, stderrFill, nread, init_response,
                   response, stdinOpen, waited, notExchange>>

\* process.stdout.readline(): the next line, '' at end of file, and blocked
\* while the pipe is empty and the process holds it open.
CanReadline == stdoutBuf # << >> \/ tool = "exited"
Readline == IF stdoutBuf # << >> THEN Head(stdoutBuf) ELSE EofLine
AfterReadline == IF stdoutBuf # << >> THEN Tail(stdoutBuf) ELSE stdoutBuf

ReadInit ==
    /\ pc = "readInit"
    /\ CanReadline
    /\ init_response' = Readline
    /\ stdoutBuf' = AfterReadline
    /\ nread' = nread + 1
    /\ pc' = "sendNotif"
    /\ UNCHANGED <<tool, nwritten, stderrFill, sent, response, outcome,
                   stdinOpen, waited, notExchange>>

SendNotif ==
    /\ pc = "sendNotif"
    /\ Write(notification, "sendCall")
    /\ UNCHANGED <<tool, stdoutBuf, nwritten, stderrFill, nread, init_response,
                   response, stdinOpen, waited, notExchange>>

SendCall ==
    /\ pc = "sendCall"
    /\ Write(mcp_request, "readResp")
    /\ UNCHANGED <<tool, stdoutBuf, nwritten, stderrFill, nread, init_response,
                   response, stdinOpen, waited, notExchange>>

ReadResp ==
    /\ pc = "readResp"
    /\ CanReadline
    /\ response' = Readline
    /\ stdoutBuf' = AfterReadline
    /\ nread' = nread + 1
    /\ pc' = "parse"
    /\ UNCHANGED <<tool, nwritten, stderrFill, sent, init_response, outcome,
                   stdinOpen, waited, notExchange>>

\* result = json.loads(response); if 'result' in result: ... else: ...
Parse ==
    /\ pc = "parse"
    /\ LET decoded == JsonLoads(response)
           member == HasResultKey(decoded.value)
       IN  IF decoded.raised \/ member.raised
           THEN Raise
           ELSE IF member.holds
                THEN IF ContentLookup(decoded.value).raised
                     THEN Raise
                     ELSE outcome' = "SUCCESS" /\ pc' = "close"
                ELSE outcome' = "ERROR" /\ pc' = "close"
    /\ UNCHANGED <<tool, stdoutBuf, nwritten, stderrFill, sent, nread,
                   init_response, response, stdinOpen, waited, notExchange>>

Close ==
    /\ pc = "close"
    /\ stdinOpen' = FALSE
    /\ pc' = "wait"
    /\ UNCHANGED <<tool, stdoutBuf, nwritten, stderrFill, sent, nread,
                   init_response, response, outcome, waited, notExchange>>

\* process.wait(): returns once the process has exited.
Wait ==
    /\ pc = "wait"
    /\ tool = "exited"
    /\ waited' = TRUE
    /\ pc' = "end"
    /\ UNCHANGED <<tool, stdoutBuf, nwritten, stderrFill, sent, nread,
                   init_response, response, outcome, stdinOpen, notExchange>>

-----------------------------------------------------------------------------
(* call_create_word.py: one subprocess.run of the tool, outside any try *)

\* subprocess.run([... json.dumps(arguments)], capture_output=True): the tool
\* is started with the content on its command line, or the start raises and
\* the script dies with a traceback.
RunTool ==
    /\ pc = "run"
    /\ \/ /\ argv' = tool_call_content
          /\ pc' = "communicate"
          /\ UNCHANGED outcome
       \/ /\ outcome' = "Traceback"
          /\ pc' = "end"
          /\ UNCHANGED argv
    /\ UNCHANGED <<tool, stdoutBuf, nwritten, stderrFill, sent, nread,
                   init_response, response, stdinOpen, waited, returncode,
                   csfile, docx, tabVars, docVars, runVars>>

\* subprocess.run returns when the tool has exited; the script prints its
\* stdout, its stderr and its return code.
RunReturn ==
    /\ pc = "communicate"
    /\ \E rc \in {0, 1} : returncode' = rc
    /\ outcome' = "printed"
    /\ pc' = "end"
    /\ UNCHANGED <<tool, stdoutBuf, nwritten, stderrFill, sent, nread,
                   init_response, response, stdinOpen, waited, argv,
                   csfile, docx, tabVars, docVars, runVars>>

-----------------------------------------------------------------------------
(* create_presentation_simple.py: the statements after the csharp_code string *)

\* with open('/tmp/presentation_creator.cs', 'w') as f: f.write(csharp_code)
\* The file is written, or open/write raises and the script dies.
WriteSource ==
    /\ pc = "write_cs"
    /\ \/ /\ csfile' = TRUE
          /\ pc' = "announce"
          /\ UNCHANGED outcome
       \/ /\ outcome' = "Traceback"
          /\ pc' = "end"
          /\ UNCHANGED csfile
    /\ UNCHANGED <<tool, stdoutBuf, nwritten, stderrFill, sent, nread,
                   init_response, response, stdinOpen, waited, argv,
                   returncode, docx, tabVars, docVars, runVars>>

\* print("Created C# presentation creator.")
\* print("Now compiling and running...")     -- the last statement
Announce ==
    /\ pc = "announce"
    /\ outcome' = "announced"
    /\ pc' = "end"
    /\ UNCHANGED <<tool, stdoutBuf, nwritten, stderrFill, sent, nread,
                   init_response, response, stdinOpen, waited, argv,
                   returncode, csfile, docx, tabVars, docVars, runVars>>

-----------------------------------------------------------------------------
(* The spawned process (dotnet run --no-build): any behaviour *)

ToolWriteLine ==
    /\ tool = "running"
    /\ nwritten < MaxLines
    /\ \E l \in ToolLines : stdoutBuf' = Append(stdoutBuf, l)
    /\ nwritten' = nwritten + 1
    /\ UNCHANGED <<pc, tool, stderrFill, sent, nread, init_response, response,
                   outcome, stdinOpen, waited, notExchange>>

\* A write to stderr: it fits in the pipe, or the process blocks in it for
\* good, the pipe having no reader.
ToolWriteStderr ==
    /\ tool = "running"
    /\ IF stderrFill < PipeCap
       THEN stderrFill' = stderrFill + 1 /\ UNCHANGED tool
       ELSE tool' = "blocked" /\ UNCHANGED stderrFill
    /\ UNCHANGED <<pc, stdoutBuf, nwritten, sent, nread, init_response,
                   response, outcome, stdinOpen, waited, notExchange>>

\* The process stops making progress without exiting (it waits for input it
\* never gets, or loops).
ToolHang ==
    /\ tool = "running"
    /\ tool' = "hung"
    /\ UNCHANGED <<pc, stdoutBuf, nwritten, stderrFill, sent, nread,
                   init_response, response, outcome, stdinOpen, waited, notExchange>>

ToolExit ==
    /\ tool = "running"
    /\ tool' = "exited"
    /\ UNCHANGED <<pc, stdoutBuf, nwritten, stderrFill, sent, nread,
                   init_response, response, outcome, stdinOpen, waited, notExchange>>

-----------------------------------------------------------------------------

ExInit ==
    /\ pc \in {"popen", "run", "write_cs"}
    /\ tool = "absent"
    /\ stdoutBuf = << >>
    /\ nwritten = 0
    /\ stderrFill = 0
    /\ sent = << >>
    /\ nread = 0
    /\ init_response = NoLine
    /\ response = NoLine
    /\ outcome = "none"
    /\ stdinOpen = TRUE
    /\ waited = FALSE

-----------------------------------------------------------------------------
(* create_products.py, create_product_excel.py, call_excel.py: the data *)

\* Cell values: a string, a number, or None (an empty cell).
S(str) == [t |-> "str", s |-> str, n |-> 0]
N(num) == [t |-> "int", s |-> "", n |-> num]
None == [t |-> "none", s |-> "", n |-> 0]

products_headers ==
    <<S("Product"), S("Price")>>

products_Ragged ==
    << <<S("iPhone"), S("$999")>>,
       <<S("MacBook")>>,
       <<S("iPad"), S("$799")>> >>
products ==
    << <<S("iPhone"), S("$999")>>,
       <<S("MacBook"), S("$1999")>>,
       <<S("iPad"), S("$799")>> >>

product_excel_headers ==
    <<S("Product ID"), S("Product Name"), S("Category"), S("Price"), S("Stock Quantity"), S("Supplier"), S("Last Updated")>>

product_excel_rows ==
    << <<S("P001"), S("Laptop Computer"), S("Electronics"), S("$1299.99"), N(45), S("TechCorp"), S("2026-01-15")>>,
       <<S("P002"), S("Office Chair"), S("Furniture"), S("$249.99"), N(23), S("ComfortSeating"), S("2026-01-20")>>,
       <<S("P003"), S("Coffee Maker"), S("Appliances"), S("$89.99"), N(67), S("BrewMaster"), S("2026-01-18")>>,
       <<S("P004"), S("Wireless Mouse"), S("Electronics"), S("$29.99"), N(134), S("TechCorp"), S("2026-01-22")>>,
       <<S("P005"), S("Desk Lamp"), S("Furniture"), S("$45.99"), N(78), S("LightWorks"), S("2026-01-16")>>,
       <<S("P006"), S("Water Bottle"), S("Accessories"), S("$19.99"), N(89), S("HydroLife"), S("2026-01-25")>>,
       <<S("P007"), S("Keyboard"), S("Electronics"), S("$79.99"), N(56), S("TechCorp"), S("2026-01-21")>>,
       <<S("P008"), S("Plant Pot"), S("Home & Garden"), S("$12.99"), N(145), S("GreenThumb"), S("2026-01-19")>>,
       <<S("P009"), S("Notebook Set"), S("Office Supplies"), S("$15.99"), N(203), S("PaperPlus"), S("2026-01-24")>>,
       <<S("P010"), S("Phone Charger"), S("Electronics"), S("$24.99"), N(98), S("PowerTech"), S("2026-01-23")>> >>

call_excel_headers ==
    <<S("Product ID"), S("Product Name"), S("Category"), S("Price"), S("Stock Quantity"), S("Supplier"), S("Last Updated")>>

call_excel_rows ==
    << <<S("P001"), S("Laptop Computer"), S("Electronics"), S("$1299.99"), S("45"), S("TechCorp"), S("2026-01-15")>>,
       <<S("P002"), S("Office Chair"), S("Furniture"), S("$249.99"), S("23"), S("ComfortSeating"), S("2026-01-20")>>,
       <<S("P003"), S("Coffee Maker"), S("Appliances"), S("$89.99"), S("67"), S("BrewMaster"), S("2026-01-18")>>,
       <<S("P004"), S("Wireless Mouse"), S("Electronics"), S("$29.99"), S("134"), S("TechCorp"), S("2026-01-22")>>,
       <<S("P005"), S("Desk Lamp"), S("Furniture"), S("$45.99"), S("78"), S("LightWorks"), S("2026-01-16")>>,
       <<S("P006"), S("Water Bottle"), S("Accessories"), S("$19.99"), S("89"), S("HydroLife"), S("2026-01-25")>>,
       <<S("P007"), S("Keyboard"), S("Electronics"), S("$79.99"), S("56"), S("TechCorp"), S("2026-01-21")>>,
       <<S("P008"), S("Plant Pot"), S("Home & Garden"), S("$12.99"), S("145"), S("GreenThumb"), S("2026-01-19")>>,
       <<S("P009"), S("Notebook Set"), S("Office Supplies"), S("$15.99"), S("203"), S("PaperPlus"), S("2026-01-24")>>,
       <<S("P010"), S("Phone Charger"), S("Electronics"), S("$24.99"), S("98"), S("PowerTech"), S("2026-01-23")>> >>

Scripts == {"create_products", "create_product_excel", "call_excel"}

HeadersOf(sc) ==
    CASE sc = "create_products" -> products_headers
      [] sc = "create_product_excel" -> product_excel_headers
      [] sc = "call_excel" -> call_excel_headers

RowsOf(sc) ==
    CASE sc = "create_products" -> products
      [] sc = "create_product_excel" -> product_excel_rows
      [] sc = "call_excel" -> call_excel_rows

-----------------------------------------------------------------------------
(* The worksheet (openpyxl) as the scripts use it *)

\* enumerate(seq, start): the items paired with start, start + 1, ...
Enumerate_FromZero(seq, start) == [k \in 1..Len(seq) |-> <<k - 1, seq[k]>>]
Enumerate(seq, start) == [k \in 1..Len(seq) |-> <<start + k - 1, seq[k]>>]

\* ws.cell(row=r, column=c, value=v): the cell is created when missing, and
\* assigned unless v is None.
Cell_Transposed(sheet, r, c, v) ==
    [x \in DOMAIN sheet \cup {<<c, r>>} |->
        IF x = <<c, r>> /\ v # None THEN v
        ELSE IF x \in DOMAIN sheet THEN sheet[x] ELSE None]
Cell(sheet, r, c, v) ==
    [x \in DOMAIN sheet \cup {<<r, c>>} |->
        IF x = <<r, c>> /\ v # None THEN v
        ELSE IF x \in DOMAIN sheet THEN sheet[x] ELSE None]

Max(set) == CHOOSE m \in set : \A x \in set : x <= m

\* ws.max_row, ws.max_column of a sheet that has cells.
MaxRow(sheet) == Max({x[1] : x \in DOMAIN sheet})
MaxCol(sheet) == Max({x[2] : x \in DOMAIN sheet})

\* Iterating cells over a rectangle creates the cells that are missing in it.
Touch(sheet, rs, cs) ==
    [x \in DOMAIN sheet \cup (rs \X cs) |->
        IF x \in DOMAIN sheet THEN sheet[x] ELSE None]

\* ws.iter_rows(values_only=True): nothing for a sheet without cells, else
\* rows 1..max_row, each the values of columns 1..max_column, None where the
\* sheet has no cell.
IterRows(sheet) ==
    IF DOMAIN sheet = {} THEN << >>
    ELSE [r \in 1..MaxRow(sheet) |->
            [c \in 1..MaxCol(sheet) |->
                IF <<r, c>> \in DOMAIN sheet THEN sheet[<<r, c>>] ELSE None]]

\* The rectangle the border loop of create_products.py walks.
BorderRows == 1..(Len(rows) + 1)
BorderCols == 1..Len(headers)

\* What wb.save writes: the cells that hold a value or a style (in
\* create_products.py the border loop styles its rectangle).
Written(sheet) ==
    LET keep == {x \in DOMAIN sheet :
                    \/ sheet[x] # None
                    \/ script = "create_products"
                       /\ x \in BorderRows \X BorderCols}
    IN  [x \in keep |-> sheet[x]]

\* len(str(value))
Digits(num) == IF num < 10 THEN 1 ELSE IF num < 100 THEN 2 ELSE 3
StrLen(v) ==
    CASE v.t = "str" -> Len(v.s)
      [] v.t = "int" -> Digits(v.n)
      [] v.t = "none" -> 4

WidthPadding == 2
WidthCap == 50

AdjustedWidth_NoCap(sheet, c) ==
    LET max_length == Max({0} \cup {StrLen(sheet[x]) :
                                     x \in {y \in DOMAIN sheet : y[2] = c}})
    IN  max_length + WidthPadding
\* adjusted_width of one column
AdjustedWidth(sheet, c) ==
    LET max_length == Max({0} \cup {StrLen(sheet[x]) :
                                     x \in {y \in DOMAIN sheet : y[2] = c}})
    IN  IF script = "create_products"
        THEN IF max_length + WidthPadding < WidthCap
             THEN max_length + WidthPadding ELSE WidthCap
        ELSE max_length + WidthPadding

-----------------------------------------------------------------------------
(* The scripts, step by step *)

\* for col, header in enumerate(headers, 1): ws.cell(row=1, column=col, ...)
WriteHeader ==
    /\ tpc = "headers"
    /\ hk <= Len(headers)
    /\ LET item == Enumerate(headers, 1)[hk]
       IN  ws' = Cell(ws, 1, item[1], item[2])
    /\ hk' = hk + 1
    /\ UNCHANGED <<script, input, headers, rows, tpc, rk, ck, widths, file,
                   readback, printed, notTable>>

HeadersDone ==
    /\ tpc = "headers"
    /\ hk > Len(headers)
    /\ tpc' = "rows"
    /\ UNCHANGED <<script, input, headers, rows, ws, hk, rk, ck, widths, file,
                   readback, printed, notTable>>

\* for row_idx, product in enumerate(products, 2):
\*     for col_idx, value in enumerate(product, 1): ws.cell(...)
WriteCell ==
    /\ tpc = "rows"
    /\ rk <= Len(rows)
    /\ ck <= Len(rows[rk])
    /\ LET row == Enumerate(rows, 2)[rk]
           item == Enumerate(row[2], 1)[ck]
       IN  ws' = Cell(ws, row[1], item[1], item[2])
    /\ ck' = ck + 1
    /\ UNCHANGED <<script, input, headers, rows, tpc, hk, rk, widths, file,
                   readback, printed, notTable>>

NextRow ==
    /\ tpc = "rows"
    /\ rk <= Len(rows)
    /\ ck > Len(rows[rk])
    /\ rk' = rk + 1
    /\ ck' = 1
    /\ UNCHANGED <<script, input, headers, rows, ws, tpc, hk, widths, file,
                   readback, printed, notTable>>

RowsDone ==
    /\ tpc = "rows"
    /\ rk > Len(rows)
    /\ tpc' = IF script = "create_products" THEN "borders" ELSE "widths"
    /\ UNCHANGED <<script, input, headers, rows, ws, hk, rk, ck, widths, file,
                   readback, printed, notTable>>

\* for row in ws.iter_rows(min_row=1, max_row=len(products)+1, min_col=1,
\*                         max_col=len(headers)): cell.border = thin_border
ApplyBorders ==
    /\ tpc = "borders"
    /\ ws' = Touch(ws, BorderRows, BorderCols)
    /\ tpc' = "widths"
    /\ UNCHANGED <<script, input, headers, rows, hk, rk, ck, widths, file,
                   readback, printed, notTable>>

\* for column in ws.columns: ... ws.column_dimensions[letter].width = ...
AdjustWidths ==
    /\ tpc = "widths"
    /\ IF DOMAIN ws = {}
       THEN UNCHANGED <<ws, widths>>
       ELSE /\ ws' = Touch(ws, 1..MaxRow(ws), 1..MaxCol(ws))
            /\ widths' = [c \in 1..MaxCol(ws) |-> AdjustedWidth(ws', c)]
    /\ tpc' = "save"
    /\ UNCHANGED <<script, input, headers, rows, hk, rk, ck, file, readback,
                   printed, notTable>>

Save_PrintFirst ==
    /\ tpc = "save"
    /\ printed' = Append(printed, "created")
    /\ \/ /\ file' = [exists |-> TRUE, cells |-> Written(ws)]
          /\ tpc' = IF script = "create_products" THEN "verify" ELSE "done"
       \/ /\ tpc' = "aborted"
          /\ UNCHANGED file
    /\ UNCHANGED <<script, input, headers, rows, ws, hk, rk, ck, widths,
                   readback, notTable>>
\* wb.save(output_path); print("Excel file created successfully: ...")
Save ==
    /\ tpc = "save"
    /\ \/ /\ file' = [exists |-> TRUE, cells |-> Written(ws)]
          /\ printed' = Append(printed, "created")
          /\ tpc' = IF script = "create_products" THEN "verify" ELSE "done"
       \/ /\ tpc' = "aborted"
          /\ UNCHANGED <<file, printed>>
    /\ UNCHANGED <<script, input, headers, rows, ws, hk, rk, ck, widths,
                   readback, notTable>>

\* try: test_wb = openpyxl.load_workbook(output_path) ... except ...
\* The file is loaded, the success line printed and the rows listed; or the
\* load raises; or, the success line printed, the listing raises.  The except
\* clause prints the failure line in both cases.
Verify ==
    /\ tpc = "verify"
    /\ \/ /\ file.exists
          /\ readback' = IterRows(file.cells)
          /\ printed' = Append(printed, "verified")
       \/ /\ printed' = Append(printed, "verify_failed")
          /\ UNCHANGED readback
       \/ /\ file.exists
          /\ printed' = printed \o <<"verified", "verify_failed">>
          /\ UNCHANGED readback
    /\ tpc' = "done"
    /\ UNCHANGED <<script, input, headers, rows, ws, hk, rk, ck, widths, file,
                   notTable>>

\* call_excel.py: requests.post(..., json=data), in try/except
Post ==
    /\ tpc = "post"
    /\ \/ printed' = Append(printed, "status")
       \/ printed' = Append(printed, "Error")
    /\ tpc' = "done"
    /\ UNCHANGED <<script, input, headers, rows, ws, hk, rk, ck, widths, file,
                   readback, notTable>>

-----------------------------------------------------------------------------
(* create_cities_doc.py, create_cities_word.py: the document build *)

\* One block of the document body.  A heading carries its level; num and name
\* are the number and the city name formatted into the block (f"{i}. {name}"),
\* text the rest of its text.
DBlock(kind, level, num, name, text) ==
    [kind |-> kind, level |-> level, num |-> num, name |-> name, text |-> text]

\* doc.add_heading(text, level)
AddHeading_OffByOne(d, level, num, name, text) ==
    Append(d, DBlock("heading", level - 1, num, name, text))
AddHeading(d, level, num, name, text) ==
    Append(d, DBlock("heading", level, num, name, text))

\* doc.add_paragraph(...), with its runs
AddParagraph(d, num, name, text) ==
    Append(d, DBlock("paragraph", NoLevel, num, name, text))

CityNames == {"Tokyo", "Paris"}
CityDescriptions == {"capital", "harbor"}
Cities == [name : CityNames, description : CityDescriptions]

\* The body of one iteration of the loop over enumerate(cities, 1).
AddCityBlocks(d, i, city) ==
    IF cscript = "create_cities_doc"
    THEN AddParagraph(d, i, city.name, city.description)
    ELSE AddParagraph(
             AddParagraph(AddHeading(d, 3, i, city.name, ""),
                          0, "", city.description),
             0, "", "")

AddTitle ==
    /\ cpc = "title"
    /\ doc' = AddHeading(doc, 0, 0, "", "TITLE")
    /\ cpc' = IF cscript = "create_cities_word" THEN "subtitle" ELSE "intro"
    /\ UNCHANGED <<cscript, cities, ci, dprinted, notCities>>

AddSubtitle ==
    /\ cpc = "subtitle"
    /\ doc' = AddHeading(doc, 2, 0, "", "SUBTITLE")
    /\ cpc' = "intro"
    /\ UNCHANGED <<cscript, cities, ci, dprinted, notCities>>

AddIntro ==
    /\ cpc = "intro"
    /\ doc' = AddParagraph(doc, 0, "", "INTRO")
    /\ cpc' = "cities"
    /\ UNCHANGED <<cscript, cities, ci, dprinted, notCities>>

\* for i, city in enumerate(cities, 1): ...
AddCity ==
    /\ cpc = "cities"
    /\ ci <= Len(cities)
    /\ LET item == Enumerate(cities, 1)[ci]
       IN  doc' = AddCityBlocks(doc, item[1], item[2])
    /\ ci' = ci + 1
    /\ UNCHANGED <<cscript, cities, cpc, dprinted, notCities>>

AddClosing ==
    /\ cpc = "cities"
    /\ ci > Len(cities)
    /\ doc' = AddParagraph(doc, 0, "", "CLOSING")
    /\ cpc' = "save"
    /\ UNCHANGED <<cscript, cities, ci, dprinted, notCities>>

\* doc.save(output_path); print("... successfully: ...")
SaveDoc ==
    /\ cpc = "save"
    /\ \/ /\ dprinted' = Append(dprinted, "created")
          /\ cpc' = "done"
       \/ /\ cpc' = "aborted"
          /\ UNCHANGED dprinted
    /\ UNCHANGED <<cscript, cities, doc, ci, notCities>>

-----------------------------------------------------------------------------
(* Concurrent runs of create_products.py: every run saves to, and then loads *)
(* from, the one path output_path.                                           *)

Runs == 1..NRuns

\* The workbook is built in the run's own memory.
RunBuild(r) ==
    /\ rpc[r] = "build"
    /\ rpc' = [rpc EXCEPT ![r] = "save"]
    /\ UNCHANGED <<disk, seen, rprinted, notRuns>>

\* wb.save(output_path) opens the path for writing, which truncates it ...
RunSaveOpen(r) ==
    /\ rpc[r] = "save"
    /\ disk' = [state |-> "partial",
                writers |-> disk.writers \cup {r},
                mixed |-> disk.mixed \/ disk.writers # {}]
    /\ rpc' = [rpc EXCEPT ![r] = "saving"]
    /\ UNCHANGED <<seen, rprinted, notRuns>>

\* ... and returns when the archive is written and closed.  Where two runs
\* wrote the file at once its content is either run's or a mix of both.
RunSaveClose(r) ==
    /\ rpc[r] = "saving"
    /\ LET left == disk.writers \ {r}
       IN  \/ /\ left # {}
              /\ disk' = [disk EXCEPT !.writers = left]
           \/ /\ left = {}
              /\ disk' = [state |-> "complete", writers |-> {}, mixed |-> FALSE]
           \/ /\ left = {}
              /\ disk.mixed
              /\ disk' = [state |-> "corrupt", writers |-> {}, mixed |-> FALSE]
    /\ rprinted' = [rprinted EXCEPT ![r] = Append(@, "created")]
    /\ rpc' = [rpc EXCEPT ![r] = "verify"]
    /\ UNCHANGED <<seen, notRuns>>

\* try: openpyxl.load_workbook(output_path) ... except: verification failed
RunVerify(r) ==
    /\ rpc[r] = "verify"
    /\ seen' = [seen EXCEPT ![r] = disk.state]
    /\ rprinted' = [rprinted EXCEPT ![r] =
                       Append(@, IF disk.state = "complete"
                                 THEN "verified" ELSE "verify_failed")]
    /\ rpc' = [rpc EXCEPT ![r] = "done"]
    /\ UNCHANGED <<disk, notRuns>>

-----------------------------------------------------------------------------
(* Initial states and specifications *)

SeqsUpTo(set, n) == UNION {[1..k -> set] : k \in 0..n}

\* Values of an arbitrary table: a short string and one of 49 characters,
\* which with the padding passes the width cap.
LongValue == S("Extra large ergonomic office chair with headrest.")

Values == {S("A"), LongValue}

CliInit ==
    /\ argv = << >>
    /\ returncode = NoCode
    /\ csfile = FALSE
    /\ docx = FALSE

ExIdle ==
    /\ pc = "idle"
    /\ tool = "absent"
    /\ stdoutBuf = << >>
    /\ nwritten = 0
    /\ stderrFill = 0
    /\ sent = << >>
    /\ nread = 0
    /\ init_response = NoLine
    /\ response = NoLine
    /\ outcome = "none"
    /\ stdinOpen = TRUE
    /\ waited = FALSE

TabStart ==
    /\ ws = << >>
    /\ tpc = IF script = "call_excel" THEN "post" ELSE "headers"
    /\ hk = 1
    /\ rk = 1
    /\ ck = 1
    /\ widths = << >>
    /\ file = [exists |-> FALSE, cells |-> << >>]
    /\ readback = << >>
    /\ printed = << >>

\* A script with the data written in it.
TabInitLiteral ==
    /\ script \in Scripts
    /\ input = "literal"
    /\ headers = HeadersOf(script)
    /\ rows = RowsOf(script)
    /\ TabStart

\* The loops, the widths and the read-back of create_products.py, and the
\* loops and the widths of create_product_excel.py, on any table.
TabInitAny ==
    /\ script \in {"create_products", "create_product_excel"}
    /\ input = "any"
    /\ headers \in SeqsUpTo(Values, MaxCols)
    /\ rows \in SeqsUpTo(SeqsUpTo(Values, MaxCols), MaxRows)
    /\ TabStart

TabIdle ==
    /\ script = "create_products"
    /\ input = "literal"
    /\ headers = << >>
    /\ rows = << >>
    /\ ws = << >>
    /\ tpc = "idle"
    /\ hk = 1
    /\ rk = 1
    /\ ck = 1
    /\ widths = << >>
    /\ file = [exists |-> FALSE, cells |-> << >>]
    /\ readback = << >>
    /\ printed = << >>

DocInit ==
    /\ cscript \in {"create_cities_doc", "create_cities_word"}
    /\ cities \in SeqsUpTo(Cities, MaxCities)
    /\ doc = << >>
    /\ cpc = "title"
    /\ ci = 1
    /\ dprinted = << >>

DocIdle ==
    /\ cscript = "create_cities_doc"
    /\ cities = << >>
    /\ doc = << >>
    /\ cpc = "idle"
    /\ ci = 1
    /\ dprinted = << >>

RunInit ==
    /\ rpc = [r \in Runs |-> "build"]
    /\ disk = [state |-> "absent", writers |-> {}, mixed |-> FALSE]
    /\ seen = [r \in Runs |-> "nothing"]
    /\ rprinted = [r \in Runs |-> << >>]

RunIdle ==
    /\ rpc = [r \in Runs |-> "idle"]
    /\ disk = [state |-> "absent", writers |-> {}, mixed |-> FALSE]
    /\ seen = [r \in Runs |-> "nothing"]
    /\ rprinted = [r \in Runs |-> << >>]

\* create_presentation.py, call_create_word.py, create_presentation_simple.py
Init == ExInit /\ CliInit /\ TabIdle /\ DocIdle /\ RunIdle

Next ==
    \/ Popen
    \/ SendInit
    \/ ReadInit
    \/ SendNotif
    \/ SendCall
    \/ ReadResp
    \/ Parse
    \/ Close
    \/ Wait
    \/ RunTool
    \/ RunReturn
    \/ WriteSource
    \/ Announce
    \/ ToolWriteLine
    \/ ToolWriteStderr
    \/ ToolHang
    \/ ToolExit

Spec == Init /\ [][Next]_vars

\* create_products.py, create_product_excel.py, call_excel.py
InitTable == ExIdle /\ CliInit /\ (TabInitLiteral \/ TabInitAny) /\ DocIdle /\ RunIdle

NextTable ==
    \/ WriteHeader
    \/ HeadersDone
    \/ WriteCell
    \/ NextRow
    \/ RowsDone
    \/ ApplyBorders
    \/ AdjustWidths
    \/ Save
    \/ Verify
    \/ Post

SpecTable == InitTable /\ [][NextTable]_vars

\* create_cities_doc.py, create_cities_word.py
InitCities == ExIdle /\ CliInit /\ TabIdle /\ DocInit /\ RunIdle

NextCities ==
    \/ AddTitle
    \/ AddSubtitle
    \/ AddIntro
    \/ AddCity
    \/ AddClosing
    \/ SaveDoc

SpecCities == InitCities /\ [][NextCities]_vars

\* The scripts that save a file: create_products.py, create_product_excel.py,
\* create_cities_doc.py, create_cities_word.py (one script per behaviour).
InitSaves == InitTable \/ InitCities

NextSaves == NextTable \/ NextCities

SpecSaves == InitSaves /\ [][NextSaves]_vars

\* Concurrent runs of create_products.py
InitRuns == ExIdle /\ CliInit /\ TabIdle /\ DocIdle /\ RunInit

NextRuns ==
    \E r \in Runs :
        \/ RunBuild(r)
        \/ RunSaveOpen(r)
        \/ RunSaveClose(r)
        \/ RunVerify(r)

SpecRuns == InitRuns /\ [][NextRuns]_vars

-----------------------------------------------------------------------------
(* Claims about the exchange of create_presentation.py (specification Spec) *)

\* C1: the exchange always terminates with an outcome: whatever the spawned
\* process does, the client is never left blocked for good in readline() or
\* wait(); in every state the script has ended or some step can still be
\* taken.
C1_AlwaysTerminates == pc = "end" \/ ENABLED Next

\* C2: every transport failure is surfaced and never retried: when a line the
\* client read (the initialize response, the create_word response) is empty
\* or not valid JSON, the client does not go on with the exchange and does not
\* report SUCCESS or an application error; no request is written twice.
C2_FailuresSurfaced ==
    /\ (nread >= 1 /\ JsonLoads(init_response).raised) =>
          /\ Len(sent) <= 1
          /\ outcome \in {"none", "Error"}
    /\ (nread = 2 /\ JsonLoads(response).raised) =>
          /\ pc \in {"parse", "end"}
          /\ outcome \in {"none", "Error"}
    /\ \A i, j \in 1..Len(sent) : i # j => sent[i] # sent[j]

\* A JSON-RPC response object: an id, and a result or an error.
WellFormedResponse(line) ==
    line.form = "object" /\ line.id # NoId /\ (line.result \/ line.error)

\* C3: transport errors and application-level errors are reported distinctly:
\* SUCCESS only for a decoded response that carries a result in which the tool
\* reports no error; ERROR (the application branch) exactly for a decoded
\* response without a result; Error (the exception branch) never for a
\* well-formed response object.
C3_ErrorsDistinct ==
    /\ outcome = "SUCCESS" =>
          response.form = "object" /\ response.result /\ ~response.isError
    /\ outcome = "ERROR" => response.form = "object" /\ ~response.result
    /\ (outcome = "Error" /\ nread = 2) => ~WellFormedResponse(response)

ExpectedOrder == <<init_request, notification, mcp_request>>

\* Requests with an id written so far, less the response lines read.
Outstanding == Cardinality({i \in 1..Len(sent) : sent[i].id # NoId}) - nread

\* C4: the exchange is request/response in lockstep and in a fixed order:
\* what was written is a prefix of initialize, notifications/initialized,
\* tools/call; one line is read after initialize before anything else is
\* written; the second line is read only after tools/call was written; at
\* most one id-bearing request is outstanding.
C4_Lockstep ==
    /\ Len(sent) <= 3
    /\ \A i \in 1..Len(sent) : sent[i] = ExpectedOrder[i]
    /\ nread <= 2
    /\ Len(sent) >= 2 => nread >= 1
    /\ Len(sent) <= 2 => nread <= 1
    /\ Len(sent) = 0 => nread = 0
    /\ Outstanding \in {0, 1}

\* C4 witness: a complete exchange, three lines written, two read, ended.
C4_Witness == pc = "end" /\ waited /\ Len(sent) = 3 /\ nread = 2

\* The tags of the ContentBlock model as the create_word content spells them.
RecognizedTags == {"heading", "paragraph", "bullet", "table", "break"}

\* The keys a block of each tag has to carry.
RequiredKeys(type) ==
    CASE type = "heading" -> {"level", "text"}
      [] type = "paragraph" -> {"text"}
      [] type = "bullet" -> {"items"}
      [] type = "table" -> {"headers", "rows"}
      [] OTHER -> {}

WellTagged(b) == b.type \in RecognizedTags /\ RequiredKeys(b.type) \subseteq b.keys

\* C11: every content block placed in a create_word request, written to the
\* process's stdin or passed on the tool's command line, carries a recognized
\* tag and the fields that tag requires; a block with another tag is never
\* sent.
C11_BlocksRecognized ==
    /\ \A i \in 1..Len(sent) : \A j \in 1..Len(sent[i].content) :
          WellTagged(sent[i].content[j])
    /\ \A j \in 1..Len(argv) : WellTagged(argv[j])

\* C5: a response is attributed to the request with the same id: the line
\* taken as the outcome of create_word is an object with id 1, and the line
\* taken as the initialize response is the object with id 0.
C5_ResponseMatchesId ==
    /\ outcome \in {"SUCCESS", "ERROR"} =>
          response.form = "object" /\ response.id = mcp_request.id
    /\ Len(sent) >= 2 =>
          init_response.form = "object" /\ init_response.id = init_request.id

-----------------------------------------------------------------------------
(* Claims about concurrent runs (specification SpecRuns) *)

\* C6: independent runs need no coordination: every run of create_products.py
\* ends as it would alone (file created, then verified), and no run's
\* verification finds a workbook file another run is in the middle of writing.
C6_RunsIndependent ==
    \A r \in Runs :
        /\ seen[r] # "partial"
        /\ rpc[r] = "done" => rprinted[r] = <<"created", "verified">>

-----------------------------------------------------------------------------
(* Claims about the city documents (specification SpecCities) *)

BodyBuilt == cpc \in {"save", "done", "aborted"}

\* C7: order is preserved and nothing is dropped, reordered or merged: once
\* the body is built it holds, after the title and introduction blocks and
\* before the closing paragraph, the entries of the cities in list order,
\* city i numbered i with the i-th name and description; 3 + n blocks in
\* create_cities_doc.py, 4 + 3n in create_cities_word.py.
C7_OrderPreserved ==
    BodyBuilt =>
        LET n == Len(cities)
        IN  IF cscript = "create_cities_doc"
            THEN /\ Len(doc) = 3 + n
                 /\ doc[1].kind = "heading" /\ doc[1].text = "TITLE"
                 /\ doc[2] = DBlock("paragraph", NoLevel, 0, "", "INTRO")
                 /\ \A i \in 1..n :
                       doc[2 + i] = DBlock("paragraph", NoLevel, i,
                                           cities[i].name,
                                           cities[i].description)
                 /\ doc[3 + n] = DBlock("paragraph", NoLevel, 0, "", "CLOSING")
            ELSE /\ Len(doc) = 4 + 3 * n
                 /\ doc[1].kind = "heading" /\ doc[1].text = "TITLE"
                 /\ doc[2].kind = "heading" /\ doc[2].text = "SUBTITLE"
                 /\ doc[3] = DBlock("paragraph", NoLevel, 0, "", "INTRO")
                 /\ \A i \in 1..n :
                       /\ doc[3 * i + 1].kind = "heading"
                       /\ doc[3 * i + 1].num = i
                       /\ doc[3 * i + 1].name = cities[i].name
                       /\ doc[3 * i + 2] = DBlock("paragraph", NoLevel, 0, "",
                                                  cities[i].description)
                       /\ doc[3 * i + 3] = DBlock("paragraph", NoLevel, 0, "", "")
                 /\ doc[4 + 3 * n] =
                       DBlock("paragraph", NoLevel, 0, "", "CLOSING")

\* C7 witness: create_cities_word.py has built the body for a list of at
\* least two cities whose first two differ in name and in description.
C7_Witness ==
    /\ cscript = "create_cities_word"
    /\ cpc = "done"
    /\ Len(cities) >= 2
    /\ cities[1].name # cities[2].name
    /\ cities[1].description # cities[2].description

-----------------------------------------------------------------------------
(* Claims about the tables (specification SpecTable) *)

Verified ==
    /\ tpc = "done"
    /\ script = "create_products"
    /\ printed = <<"created", "verified">>

LoopsDone == tpc \in {"borders", "widths", "save", "verify", "done", "aborted"}

Rectangular ==
    \A i \in 1..Len(rows) : Len(rows[i]) = Len(headers)

\* Every header and every value is in the cell the loops put it in.
CellsPlaced ==
    /\ \A c \in 1..Len(headers) :
          <<1, c>> \in DOMAIN ws /\ ws[<<1, c>>] = headers[c]
    /\ \A i \in 1..Len(rows) : \A j \in 1..Len(rows[i]) :
          /\ <<i + 1, j>> \in DOMAIN ws
          /\ ws[<<i + 1, j>>] = rows[i][j]

\* The headers and then the rows (nothing for a table without any value).
HeadersThenRows ==
    IF headers = << >> /\ \A i \in 1..Len(rows) : rows[i] = << >>
    THEN << >>
    ELSE <<headers>> \o rows

C9_Rectangular ==
    input = "literal" =>
        /\ Rectangular
        /\ (LoopsDone /\ script # "call_excel") =>
              /\ {x \in DOMAIN ws : ws[x] # None}
                    = (1..(Len(rows) + 1)) \X (1..Len(headers))
              /\ \A x \in DOMAIN ws : ws[x] # None

\* C9 witness: create_product_excel.py has run its loops to the end.
C9_Witness ==
    /\ input = "literal"
    /\ script = "create_product_excel"
    /\ tpc = "done"
    /\ Len(rows) = 10
    /\ Len(headers) = 7

\* The width loop has run on a sheet that has cells.
WidthsSet ==
    /\ tpc \in {"save", "verify", "done", "aborted"}
    /\ script # "call_excel"
    /\ DOMAIN ws # {}

\* The lengths of the string forms of the cells of column c.
ColumnLengths(c) == {StrLen(ws[x]) : x \in {y \in DOMAIN ws : y[2] = c}}

\* C12: after the width loop every column that holds a cell has a width: 2
\* plus the greatest length of the string form of its cells, header included,
\* capped at 50 in create_products.py and uncapped in create_product_excel.py;
\* in create_products.py the width is between 2 and 50, and where no cap
\* applies the width exceeds the length of every value of the column.
C12_WidthsFitContent ==
    WidthsSet =>
        /\ DOMAIN widths = {x[2] : x \in DOMAIN ws}
        /\ \A c \in DOMAIN widths :
              LET longest == Max(ColumnLengths(c))
              IN  /\ ColumnLengths(c) # {}
                  /\ c <= Len(headers) => StrLen(headers[c]) <= longest
                  /\ script = "create_products" =>
                        /\ widths[c] = IF longest + 2 < 50 THEN longest + 2
                                       ELSE 50
                        /\ widths[c] \in 2..50
                  /\ script = "create_product_excel" =>
                        widths[c] = longest + 2
                  /\ (script = "create_product_excel" \/ longest + 2 <= 50) =>
                        \A len \in ColumnLengths(c) : widths[c] > len

\* C12 witness: create_products.py has finished on a table with one column
\* whose width is cut to 50 by a value of 49 characters and one column whose
\* width is below the cap.
C12_Witness ==
    /\ WidthsSet
    /\ tpc = "done"
    /\ script = "create_products"
    /\ input = "any"
    /\ \E c1, c2 \in DOMAIN widths :
          /\ widths[c1] = 50
          /\ 49 \in ColumnLengths(c1)
          /\ widths[c2] < 50

\* C13: when create_presentation_simple.py has written the C# source and
\* printed its two lines, that is when the script ends,
\* Climate_Change_Presentation.docx exists in the generated_files directory.
C13_DocumentExistsAtEnd ==
    (pc = "end" /\ outcome = "announced") => (csfile /\ docx)

\* The lines a script has printed, as a set.
Printed(lines) == {lines[i] : i \in DOMAIN lines}

\* C14: the success line is printed only if the save call returned: a script
\* whose save raised is aborted with no line printed, in the workbook scripts
\* and in the document scripts; create_products.py always goes on past a
\* failed verification to its end, having reported it with the failure line,
\* and prints the verification success line only if the file was there to be
\* reloaded, after the success line of the save.
C14_SuccessTruthful ==
    /\ "created" \in Printed(printed) =>
          /\ file.exists
          /\ tpc \in {"verify", "done"}
          /\ printed[1] = "created"
    /\ tpc = "aborted" => (printed = << >> /\ ~file.exists)
    /\ (tpc \in {"verify", "done"} /\ script # "call_excel") =>
          "created" \in Printed(printed)
    /\ (tpc = "done" /\ script = "create_product_excel") =>
          printed = <<"created">>
    /\ (tpc = "done" /\ script = "create_products") =>
          printed \in { <<"created", "verified">>,
                        <<"created", "verify_failed">>,
                        <<"created", "verified", "verify_failed">> }
    /\ "verified" \in Printed(printed) => (file.exists /\ tpc = "done")
    /\ "verify_failed" \in Printed(printed) => tpc = "done"
    /\ "created" \in Printed(dprinted) => cpc = "done"
    /\ cpc = "aborted" => dprinted = << >>
    /\ cpc = "done" => dprinted = <<"created">>

\* C14 witness: create_products.py has saved its file, printed the success
\* line, failed the verification, reported it and reached its end.
C14_Witness ==
    /\ script = "create_products"
    /\ tpc = "done"
    /\ file.exists
    /\ printed = <<"created", "verify_failed">>

\* C15: on every path of create_presentation.py after the process was
\* started, the paths where a write, a readline, the decoding or the lookup
\* raises included, when the script ends the client has closed the process's
\* stdin and has waited for the process to exit.
C15_ProcessReleased ==
    (pc = "end" /\ tool # "absent") => (~stdinOpen /\ waited)

=============================================================================
